---- MODULE Spec2Model ----
(***************************************************************************)
(* Model of the backend helpers of sequelize-test:                         *)
(*   src/backend/src/middleware/checkToken.js   checkToken                 *)
(*   src/backend/src/utils.js                   objectKey, validateInput,  *)
(*       findUserByField, updateUserField, setCookie                       *)
(*                                                                         *)
(* JavaScript values are tagged records, so that values of different JS    *)
(* types can be compared: Undefined, Null, Str(s), NotString, and the      *)
(* structured strings Jwt(..) (a signed token) and bcryptHash(..) (a       *)
(* bcrypt digest).  A JS object literal ("mapping") is the sequence of its *)
(* own keys in Object.keys order, each with its value.                     *)
(***************************************************************************)
EXTENDS Integers, Sequences, FiniteSets, TLC

VARIABLES
    \* ---- Auth gate and cookie issuance
    nodeEnv,      \* config.env.NODE_ENV
    jar,          \* the client's cookie store, by cookie name
    issued,       \* the mapping given to the last setCookie call, or <<>>
    loginRes,     \* the response setCookie last acted on: its cookies
    req,          \* the request checkToken last handled
    res,          \* what checkToken wrote to that request's response
    trace,        \* what checkToken did: token read, verify and next calls
    \* ---- updateUserField
    users,        \* the user records, by reference
    call,         \* the updateUserField calls, by number
    saltCtr,      \* how many salts bcrypt.genSalt has produced
    hashLog,      \* the password updates completed: plaintext and stored hash
    started,      \* how many updateUserField calls have been started
    \* ---- validateInput
    vIn,          \* the input of the last validateInput call
    vOut,         \* its outcome
    \* ---- findUserByField
    table,        \* the rows of the user store
    fIn,          \* the last findUserByField call: position, arguments, query
    fOut          \* what that call returned

authVars == <<nodeEnv, jar, issued, loginRes, req, res, trace>>
updVars == <<users, call, saltCtr, hashLog, started>>
valVars == <<vIn, vOut>>
findVars == <<table, fIn, fOut>>
vars == <<authVars, updVars, valVars, findVars>>

-----------------------------------------------------------------------------
(* JavaScript values *)

Undefined == [tag |-> "undefined"]
Null == [tag |-> "null"]
NotString == [tag |-> "number"]
Str(s) == [tag |-> "str", s |-> s]

\* A well-formed JSON Web Token: subject, the key it is signed with, expiry.
Jwt(sub, key, exp) == [tag |-> "jwt", sub |-> sub, key |-> key, exp |-> exp]

\* A guard that tests only for undefined.
FalsyOnlyUndefined(v) == v = Undefined

\* JavaScript's ToBoolean on the values above, negated (`!token`).
Falsy(v) == v \in {Undefined, Null, Str("")}

\* A mapping is a sequence of [key, value] entries in Object.keys order.
Entry(k, v) == [key |-> k, value |-> v]

\* Taking the last key of the mapping instead of the first.
objectKeyLast(obj) ==
    IF obj = <<>>
    THEN [key |-> "undefined", value |-> Undefined]
    ELSE [key |-> obj[Len(obj)].key, value |-> obj[Len(obj)].value]

objectKey(obj) ==
    IF obj = <<>>
    THEN [key |-> "undefined", value |-> Undefined]
    ELSE [key |-> obj[1].key, value |-> obj[1].value]

-----------------------------------------------------------------------------
(* Bounds *)

MaxTime == 2
MaxCalls == 3
Slack == 1
MaxRows == 2

-----------------------------------------------------------------------------
(* Auth gate: checkToken *)

StatusDenied == 403
StatusUnauthorized == 401

\* config.msg.server.denied, config.msg.server.unauthorized and, in the
\* compiled build, config.msg.server.invalidToken
MsgDenied == Str("config.msg.server.denied")
MsgUnauthorized == Str("config.msg.server.unauthorized")
MsgInvalidToken == Str("config.msg.server.invalidToken")

\* config.env.SECRET
Secret == "SECRET"
OtherKey == "forged-key"

ExpiryTimes == 1..MaxTime

\* The credentials the login flow signs, and those a forger signs.
Credentials == {Jwt("u1", Secret, e) : e \in ExpiryTimes}
Forged == {Jwt("u1", OtherKey, e) : e \in ExpiryTimes}

TokenValues ==
    Credentials \cup Forged \cup {Undefined, Null, Str(""), Str("garbage")}

CookieNames == {"token", "authToken"}

NoCookies == [token |-> Undefined, authToken |-> Undefined]

\* req.cookies: Undefined when no cookie parser ran, else the parsed cookies.
CookieStores ==
    {Undefined} \cup {[token |-> t, authToken |-> Undefined] : t \in TokenValues}

\* The clock readings a request can arrive at (jwt.verify reads the clock).
Times == 0..MaxTime

\* jwt.verify(token, secret) at clock t: decode, check the signature, then
\* the expiry (clockTimestamp >= payload.exp is expired).  Throws on failure.
jwtVerify(token, secret, t) ==
    IF token.tag # "jwt" THEN [ok |-> FALSE, err |-> "jwt malformed"]
    ELSE IF token.key # secret THEN [ok |-> FALSE, err |-> "invalid signature"]
    ELSE IF t >= token.exp THEN [ok |-> FALSE, err |-> "jwt expired"]
    ELSE [ok |-> TRUE, err |-> ""]

NextBehaviours == {"returns", "throws"}

\* A response nothing has been written to (status 0: none set).
FreshRes == [status |-> 0, body |-> Undefined]

\* res.status(code).json(body)
statusJson(r, code, body) == [r EXCEPT !.status = code, !.body = body]

\* A catch block that answers with the denied status.
catchBlockDenied(rs) == statusJson(rs, StatusDenied, [msg |-> MsgDenied])

\* The catch block of checkToken.
catchBlock(rs) == statusJson(rs, StatusUnauthorized, [msg |-> MsgUnauthorized])

NoTrace == [handled |-> FALSE, token |-> Undefined, verifyCalls |-> 0,
            verified |-> FALSE, nextCalls |-> 0, at |-> 0]

\* checkToken(req, res, next) at clock t; `next` is how the downstream
\* handler behaves when called.  Gives the response and what was called.
checkToken(rq, rs, next, t) ==
    LET token == IF rq.cookies = Undefined THEN Undefined ELSE rq.cookies.token
        base == [NoTrace EXCEPT !.handled = TRUE, !.token = token, !.at = t]
    IN  IF Falsy(token)
        THEN [res |-> statusJson(rs, StatusDenied, [msg |-> MsgDenied]),
              trace |-> base]
        ELSE LET v == jwtVerify(token, Secret, t)
                 tried == [base EXCEPT !.verifyCalls = 1, !.verified = v.ok]
             IN  IF ~v.ok
                 THEN \* jwt.verify threw: the catch block answers
                      [res |-> catchBlock(rs), trace |-> tried]
                 ELSE IF next = "throws"
                 THEN \* next() threw inside the same try: the catch answers
                      [res |-> catchBlock(rs),
                       trace |-> [tried EXCEPT !.nextCalls = 1]]
                 ELSE [res |-> rs, trace |-> [tried EXCEPT !.nextCalls = 1]]

\* jwtVerify(token) of the compiled build's utils: jwt.verify against the
\* server secret.
distJwtVerify(token, t) == jwtVerify(token, Secret, t)

\* checkToken of the compiled build (dist/middleware/checkToken.js).
checkTokenDist(rq, rs, next, t) ==
    LET token == IF rq.cookies = Undefined THEN Undefined ELSE rq.cookies.token
        base == [NoTrace EXCEPT !.handled = TRUE, !.token = token, !.at = t]
    IN  IF Falsy(token)
        THEN [res |-> statusJson(rs, StatusDenied, [msg |-> MsgDenied]),
              trace |-> base]
        ELSE LET v == distJwtVerify(token, t)
                 tried == [base EXCEPT !.verifyCalls = 1, !.verified = v.ok]
                 caught == statusJson(rs, StatusUnauthorized,
                                      [msg |-> MsgInvalidToken])
             IN  IF ~v.ok
                 THEN [res |-> caught, trace |-> tried]
                 ELSE IF next = "throws"
                 THEN [res |-> caught, trace |-> [tried EXCEPT !.nextCalls = 1]]
                 ELSE [res |-> rs, trace |-> [tried EXCEPT !.nextCalls = 1]]

\* The two builds of the middleware in the repository.
Builds == {"src", "dist"}

-----------------------------------------------------------------------------
(* Cookie issuance: setCookie *)

cookieTimeDays == 3

NodeEnvs == {"production", "development", "PRODUCTION"}

\* res.cookie(name, value, options): one more Set-Cookie on the response.
resCookie(r, name, value, options) ==
    Append(r, [name |-> name, value |-> value, options |-> options])

\* The secure flag set in every environment but development.
setCookieSecureUnlessDev(r, value, env) ==
    LET kv == objectKey(value)
        cookieConfig == [httpOnly |-> TRUE,
                         secure |-> (env # "development"),
                         maxAge |-> cookieTimeDays * 24 * 60 * 60 * 1000]
    IN  resCookie(r, kv.key, kv.value, cookieConfig)

setCookie(r, value, env) ==
    LET kv == objectKey(value)
        cookieConfig == [httpOnly |-> TRUE,
                         secure |-> (env = "production"),
                         maxAge |-> cookieTimeDays * 24 * 60 * 60 * 1000]
    IN  resCookie(r, kv.key, kv.value, cookieConfig)

\* The mappings callers pass: {token}, {authToken} (the documented example)
\* and two-key mappings, whose first key alone is used.
CookieMappings ==
    {<<Entry(k, c)>> : k \in CookieNames, c \in Credentials} \cup
    {<<Entry("token", Jwt("u1", Secret, MaxTime)),
       Entry("authToken", Jwt("u1", Secret, 1))>>}

\* How many cookies other code has already set on the response.
PriorCounts == {0, 1}

\* A response that already carries n cookies set by other code.
PriorCookies(n) ==
    [i \in 1..n |-> [name |-> "lang", value |-> Str("pt"),
                     options |-> [httpOnly |-> FALSE, secure |-> FALSE,
                                  maxAge |-> 0]]]

\* The client keeps each cookie of a response under its name.
RECURSIVE storeCookies(_, _)
storeCookies(j, cs) ==
    IF cs = <<>> THEN j
    ELSE storeCookies(
            IF Head(cs).name \in DOMAIN j
            THEN [j EXCEPT ![Head(cs).name] = Head(cs).value]
            ELSE j,
            Tail(cs))

-----------------------------------------------------------------------------
(* Actions of the auth gate *)

\* The login flow issues a cookie on its response; the client stores it.
SetCookie ==
    \E value \in CookieMappings, n \in PriorCounts :
        LET r == setCookie(PriorCookies(n), value, nodeEnv)
        IN  /\ issued' = value
            /\ loginRes' = [prior |-> n, cookies |-> r]
            /\ jar' = storeCookies(jar, r)
            /\ UNCHANGED <<nodeEnv, req, res, trace>>

\* A protected request arrives, carrying the client's cookies or any others.
CheckToken ==
    \E c \in CookieStores \cup {jar}, next \in NextBehaviours, t \in Times,
       build \in Builds :
        LET rq == [cookies |-> c, build |-> build]
            out == IF build = "src"
                   THEN checkToken(rq, FreshRes, next, t)
                   ELSE checkTokenDist(rq, FreshRes, next, t)
        IN  /\ req' = rq
            /\ res' = out.res
            /\ trace' = out.trace
            /\ UNCHANGED <<nodeEnv, jar, issued, loginRes>>

NextAuth ==
    \/ SetCookie /\ UNCHANGED <<updVars, valVars, findVars>>
    \/ CheckToken /\ UNCHANGED <<updVars, valVars, findVars>>

InitAuth ==
    /\ nodeEnv \in NodeEnvs
    /\ jar = NoCookies
    /\ issued = <<>>
    /\ loginRes = [prior |-> 0, cookies |-> <<>>]
    /\ req = [cookies |-> Undefined, build |-> "src"]
    /\ res = FreshRes
    /\ trace = NoTrace
    /\ users = <<>> /\ call = <<>> /\ saltCtr = 0 /\ hashLog = <<>>
    /\ started = 0
    /\ vIn = <<>> /\ vOut = [called |-> FALSE]
    /\ table = <<>> /\ fIn = [pc |-> "idle"] /\ fOut = [kind |-> "none"]

SpecAuth == InitAuth /\ [][NextAuth]_vars

-----------------------------------------------------------------------------
(* Claims about the auth gate and the cookie *)

\* The request carries no token: no cookie store, or an undefined, null or
\* empty token cookie.
TokenMissing == req.cookies = Undefined \/ req.cookies.token \in {Undefined, Null, Str("")}

\* The token read fails verification at the time of the request: garbled,
\* signed with another key, or expired.
VerificationFails ==
    \/ trace.token.tag # "jwt"
    \/ trace.token.tag = "jwt" /\ trace.token.key # Secret
    \/ trace.token.tag = "jwt" /\ trace.token.exp <= trace.at

LastCookie == loginRes.cookies[Len(loginRes.cookies)]

\* C1: a request with no cookie store or no token (undefined, null, "") gets
\* status 403 with body {msg: denied}; nothing is verified and next is not
\* invoked.
C1_MissingTokenDenied ==
    (trace.handled /\ TokenMissing) =>
        /\ res = [status |-> 403, body |-> [msg |-> MsgDenied]]
        /\ trace.verifyCalls = 0
        /\ trace.nextCalls = 0

C1_Witness ==
    /\ trace.handled
    /\ req.cookies # Undefined
    /\ req.cookies.token = Str("")
    /\ res.status = 403

\* The message a build is configured to give for an unauthorized request.
UnauthorizedMessage ==
    IF req.build = "src" THEN MsgUnauthorized ELSE MsgInvalidToken

\* C2: a request whose token fails verification (bad signature, expired,
\* malformed) gets status 401 with body {msg: unauthorized message}; next
\* is not invoked.
C2_InvalidTokenUnauthorized ==
    (trace.handled /\ ~TokenMissing /\ VerificationFails) =>
        /\ res = [status |-> 401, body |-> [msg |-> UnauthorizedMessage]]
        /\ trace.verifyCalls = 1
        /\ trace.nextCalls = 0

C2_Witness ==
    /\ trace.handled
    /\ trace.token.tag = "jwt"
    /\ trace.token.key = Secret
    /\ trace.token.exp <= trace.at
    /\ res.status = 401

\* C3: a request whose token verifies gets next invoked exactly once and
\* nothing (no status, no body) written to the response.
C3_ValidTokenPassesUntouched ==
    (trace.handled /\ ~TokenMissing /\ ~VerificationFails) =>
        /\ trace.nextCalls = 1
        /\ res = FreshRes

\* C9: whatever the downstream handler does, a handled request ends either
\* authenticated (next invoked, no rejection written) or rejected (a 401 or
\* 403 written, next not invoked), never both; and a 401 is written only
\* when verification of the token failed.
C9_ExactlyOneOutcome ==
    trace.handled =>
        /\ \/ trace.nextCalls = 1 /\ res.status \notin {401, 403}
           \/ trace.nextCalls = 0 /\ res.status \in {401, 403}
        /\ res.status = 401 => (~TokenMissing /\ VerificationFails)

\* C7: a setCookie call adds exactly one cookie to the response, with
\* httpOnly true, secure true exactly when NODE_ENV is "production", and
\* maxAge 259200000 ms.
C7_CookieFlags ==
    issued # <<>> =>
        /\ Len(loginRes.cookies) = loginRes.prior + 1
        /\ SubSeq(loginRes.cookies, 1, loginRes.prior) = PriorCookies(loginRes.prior)
        /\ LastCookie.options.httpOnly = TRUE
        /\ LastCookie.options.secure = (nodeEnv = "production")
        /\ LastCookie.options.maxAge = 259200000

C7_Witness ==
    /\ issued # <<>>
    /\ nodeEnv = "PRODUCTION"
    /\ loginRes.prior = 1
    /\ LastCookie.options.secure = FALSE
    /\ LastCookie.options.httpOnly = TRUE

\* C8 as stated: the cookie setCookie writes is named token and carries the
\* credential, so that the next request of that client presents the
\* credential as request.cookies.token.
C8_CookieAlwaysNamedToken ==
    issued # <<>> =>
        /\ LastCookie.name = "token"
        /\ LastCookie.value = issued[1].value
        /\ (trace.handled /\ req.cookies = jar) => trace.token = issued[1].value

\* C8 amended: the cookie setCookie writes is named by the first key of the
\* mapping it is given and carries that key's value; when that key is
\* token, a following request of that client presents the value as
\* request.cookies.token, which is what checkToken reads.
C8_CookieNamedByFirstKey ==
    issued # <<>> =>
        /\ LastCookie.name = issued[1].key
        /\ LastCookie.value = issued[1].value
        /\ (trace.handled /\ req.cookies = jar /\ issued[1].key = "token")
                => trace.token = issued[1].value

C8_Witness ==
    /\ Len(issued) = 2
    /\ issued[1].key = "token"
    /\ LastCookie.name = "token"
    /\ trace.handled
    /\ req.cookies = jar
    /\ trace.token = issued[1].value
    /\ trace.nextCalls = 1
    /\ res = FreshRes

-----------------------------------------------------------------------------
(* updateUserField *)

Attrs == {"name", "email", "cpf", "passwd"}

UserRefs == {1, 2}

\* bcrypt.genSalt(12): the cost factor.
saltRounds == 12

\* The digest bcrypt.hash(data, salt) gives: a string that embeds the cost
\* and the salt and is determined by (data, salt).
bcryptHash(data, salt) ==
    [tag |-> "bcrypt", cost |-> saltRounds, salt |-> salt, data |-> data]

\* A salt generator that gives the same salt every time.
genSaltFixed(ctr) == 1

\* bcrypt.genSalt: 16 random bytes, modelled as a salt never given before
\* (ctr salts have been given so far).
genSalt(ctr) == ctr + 1

\* An update that stores the value it is given.
hashedValuePlain(value, salt) == value

\* bcrypt.hash(value, salt), the value stored under passwd.
hashedValue(value, salt) == bcryptHash(value.s, salt)

\* An assignment that also blanks the e-mail address.
assignAndClearEmail(user, key, value) ==
    [user EXCEPT ![key] = value, !["email"] = Str("")]

\* user[key] = value
assign(user, key, value) == [user EXCEPT ![key] = value]

\* The user record as registration left it: the password already hashed.
InitialUser(r) ==
    [name |-> Str("ana"), email |-> Str("ana@x.io"),
     cpf |-> Str("12345678901"), passwd |-> bcryptHash("initial", 0)]

Passwords == {"secret1", "hunter22"}

\* The mappings callers pass to updateUserField; of a two-key mapping the
\* first key alone is used.
UpdateFields ==
    {<<Entry("passwd", Str(p))>> : p \in Passwords} \cup
    {<<Entry("name", Str("bob"))>>,
     <<Entry("name", Str("bob")), Entry("passwd", Str("secret1"))>>}

Slots == 1..MaxCalls

\* A call: its position, arguments and locals.  Calls are numbered in the
\* order they are made; any number of them may be in flight at once.
IdleCall == [pc |-> "idle", user |-> 0, field |-> <<>>, key |-> "",
             value |-> Undefined, salt |-> 0, writes |-> <<>>, ret |-> 0]

\* updateUserField(user, field) up to its first await: a key other than
\* passwd is assigned and the record returned; for passwd, genSalt is begun.
Start(s, r, field) ==
    /\ started < MaxCalls
    /\ s = started + 1
    /\ started' = started + 1
    /\ LET kv == objectKey(field)
           c == [IdleCall EXCEPT !.user = r, !.field = field,
                                 !.key = kv.key, !.value = kv.value]
       IN  IF kv.key # "passwd"
           THEN /\ users' = [users EXCEPT ![r] = assign(users[r], kv.key, kv.value)]
                /\ call' = [call EXCEPT ![s] =
                                [c EXCEPT !.pc = "done", !.writes = <<kv.key>>,
                                          !.ret = r]]
           ELSE /\ users' = users
                /\ call' = [call EXCEPT ![s] = [c EXCEPT !.pc = "genSalt"]]
    /\ UNCHANGED <<saltCtr, hashLog>>

\* `await bcrypt.genSalt(12)` resolves; bcrypt.hash(value, salt) is begun.
SaltReady(s) ==
    /\ call[s].pc = "genSalt"
    /\ saltCtr' = saltCtr + 1
    /\ call' = [call EXCEPT ![s].salt = genSalt(saltCtr), ![s].pc = "hash"]
    /\ UNCHANGED <<users, hashLog, started>>

\* `await bcrypt.hash(value, salt)` resolves: the digest is assigned and the
\* record returned.
HashReady(s) ==
    /\ call[s].pc = "hash"
    /\ LET c == call[s]
           h == hashedValue(c.value, c.salt)
       IN  /\ users' = [users EXCEPT ![c.user] = assign(users[c.user], c.key, h)]
           /\ hashLog' = Append(hashLog, [pw |-> c.value, stored |-> h])
           /\ call' = [call EXCEPT ![s].pc = "done", ![s].writes = <<c.key>>,
                                   ![s].ret = c.user]
    /\ UNCHANGED <<saltCtr, started>>

NextUpd ==
    \/ \E s \in Slots, r \in UserRefs, field \in UpdateFields :
            Start(s, r, field) /\ UNCHANGED <<authVars, valVars, findVars>>
    \/ \E s \in Slots : SaltReady(s) /\ UNCHANGED <<authVars, valVars, findVars>>
    \/ \E s \in Slots : HashReady(s) /\ UNCHANGED <<authVars, valVars, findVars>>

InitUpd ==
    /\ users = [r \in UserRefs |-> InitialUser(r)]
    /\ call = [s \in Slots |-> IdleCall]
    /\ saltCtr = 0
    /\ hashLog = <<>>
    /\ started = 0
    /\ nodeEnv = "production" /\ jar = NoCookies /\ issued = <<>>
    /\ loginRes = [prior |-> 0, cookies |-> <<>>]
    /\ req = [cookies |-> Undefined, build |-> "src"]
    /\ res = FreshRes /\ trace = NoTrace
    /\ vIn = <<>> /\ vOut = [called |-> FALSE]
    /\ table = <<>> /\ fIn = [pc |-> "idle"] /\ fOut = [kind |-> "none"]

SpecUpd == InitUpd /\ [][NextUpd]_vars

-----------------------------------------------------------------------------
(* Claims about updateUserField *)

\* C4: whatever updateUserField calls have run, interleaved or not, no user's
\* passwd equals a plaintext that was passed under the passwd key; and two
\* completed password updates with the same plaintext stored different
\* hashes, each with its own salt.
C4_NeverPlaintextAlwaysSalted ==
    /\ \A r \in UserRefs, p \in Passwords : users[r].passwd # Str(p)
    /\ \A i, j \in 1..Len(hashLog) :
            (i < j /\ hashLog[i].pw = hashLog[j].pw) =>
                /\ hashLog[i].stored # hashLog[j].stored
                /\ hashLog[i].stored.salt # hashLog[j].stored.salt

C4_Witness ==
    /\ Len(hashLog) >= 2
    /\ hashLog[1].pw = Str("secret1")
    /\ hashLog[2].pw = Str("secret1")
    /\ hashLog[1].stored.salt > hashLog[2].stored.salt
    /\ users[1].passwd = hashLog[2].stored

\* A call that this step completed.
Completed(s) == call'[s].pc = "done" /\ call'[s] # call[s]

\* C10: an updateUserField call changes one attribute of the record it is
\* given, the one named by the first key of the mapping, and no other
\* attribute of any record; a key other than passwd is left holding the
\* given value unmodified; and the call returns the record it was given.
C10_OneAttributeFrame ==
    [][ /\ \A r \in UserRefs, a \in Attrs :
              users'[r][a] # users[r][a] =>
                  \E s \in Slots : /\ Completed(s)
                                   /\ call'[s].user = r
                                   /\ call'[s].field[1].key = a
        /\ \A s \in Slots :
              Completed(s) =>
                  /\ call'[s].writes = <<call'[s].field[1].key>>
                  /\ call'[s].ret = call'[s].user
                  /\ call'[s].field[1].key # "passwd" =>
                        users'[call'[s].user][call'[s].field[1].key]
                            = call'[s].field[1].value
      ]_vars

C10_Witness ==
    \E s \in Slots :
        /\ call[s].pc = "done"
        /\ Len(call[s].field) = 2
        /\ call[s].field[1].key = "name"
        /\ users[call[s].user].name = Str("bob")
        /\ users[call[s].user].passwd = bcryptHash("initial", 0)
        /\ call[s].ret = call[s].user

-----------------------------------------------------------------------------
(* validateInput *)
(* The strings validateInput measures are character sequences:             *)
(* Chars(<<"a", "@", "b">>) is the string "a@b".                            *)

Chars(cs) == [tag |-> "str", s |-> cs]

Rep(c, n) == [i \in 1..n |-> c]

\* obj[key]: the value of the first entry with that key, else undefined.
get(obj, key) ==
    IF \E i \in 1..Len(obj) : obj[i].key = key
    THEN obj[CHOOSE i \in 1..Len(obj) :
                /\ obj[i].key = key
                /\ \A j \in 1..(i - 1) : obj[j].key # key].value
    ELSE Undefined

\* The character classes of zod's e-mail pattern, over the model's alphabet.
Letters == {"a", "b", "c", "d", "e", "i", "o", "x", "y", "A", "Z"}
Digits == {"0", "1", "9"}
AlNum == Letters \cup Digits

\* zod's e-mail pattern, case-insensitive:
\* ^(?!\.)(?!.*\.\.)([A-Z0-9_'+\-\.]*)[A-Z0-9_+-]@([A-Z0-9][A-Z0-9\-]*\.)+[A-Z]{2,}$
DomainMatches(d) ==
    /\ \E i \in 1..Len(d) : d[i] = "."
    /\ LET p == CHOOSE i \in 1..Len(d) :
                    d[i] = "." /\ \A j \in (i + 1)..Len(d) : d[j] # "."
       IN  /\ Len(d) - p >= 2
           /\ \A j \in (p + 1)..Len(d) : d[j] \in Letters
           /\ d[1] \in AlNum
           /\ \A j \in 1..p : d[j] \in AlNum \cup {"-", "."}
           /\ \A j \in 1..(p - 1) : d[j] = "." => d[j + 1] \in AlNum

emailRegex(cs) ==
    /\ cs # <<>>
    /\ cs[1] # "."
    /\ \A i \in 1..(Len(cs) - 1) : ~(cs[i] = "." /\ cs[i + 1] = ".")
    /\ \E at \in 1..Len(cs) :
        /\ cs[at] = "@"
        /\ at >= 2
        /\ \A i \in 1..(at - 1) : cs[i] \in AlNum \cup {"_", "'", "+", "-", "."}
        /\ cs[at - 1] \in AlNum \cup {"_", "+", "-"}
        /\ DomainMatches(SubSeq(cs, at + 1, Len(cs)))

Check(kind, value) == [kind |-> kind, value |-> value]

\* A schema whose cpf has a minimum length and no maximum.
inputDataSchemaNoCpfMax ==
    [name |-> <<Check("min", 3), Check("max", 100)>>,
     email |-> <<Check("max", 100), Check("email", 0)>>,
     cpf |-> <<Check("min", 11)>>,
     passwd |-> <<Check("min", 6), Check("max", 16)>>]

\* inputDataSchema: every field an optional string with these checks.
inputDataSchema ==
    [name |-> <<Check("min", 3), Check("max", 100)>>,
     email |-> <<Check("max", 100), Check("email", 0)>>,
     cpf |-> <<Check("min", 11), Check("max", 11)>>,
     passwd |-> <<Check("min", 6), Check("max", 16)>>]

SchemaKeys == DOMAIN inputDataSchema

\* The keys of the schema in the order z.object declares them, which is the
\* order of the keys of a parsed result.
SchemaOrder == <<"name", "email", "cpf", "passwd">>

has(obj, key) == \E i \in 1..Len(obj) : obj[i].key = key

\* One check of a zod string: TRUE when it raises an issue.
checkFails(chk, cs) ==
    IF chk.kind = "min" THEN Len(cs) < chk.value
    ELSE IF chk.kind = "max" THEN Len(cs) > chk.value
    ELSE ~emailRegex(cs)

issueCode(chk) ==
    IF chk.kind = "min" THEN "too_small"
    ELSE IF chk.kind = "max" THEN "too_big"
    ELSE "invalid_string"

\* The issues zod raises for one field: none when it is undefined
\* (optional), invalid_type when it is not a string, else one per failed
\* check.
fieldIssues(key, v) ==
    IF v = Undefined THEN {}
    ELSE IF v.tag # "str" THEN {[path |-> key, code |-> "invalid_type"]}
    ELSE {[path |-> key, code |-> issueCode(inputDataSchema[key][i])] :
            i \in {j \in 1..Len(inputDataSchema[key]) :
                        checkFails(inputDataSchema[key][j], v.s)}}

\* inputDataSchema.parse(input): a new object with the known keys that are
\* present, in the schema's order, or the issues; unknown keys are stripped.
schemaParse(input) ==
    LET issues == UNION {fieldIssues(k, get(input, k)) : k \in SchemaKeys}
        shaped == [i \in 1..Len(SchemaOrder) |->
                        Entry(SchemaOrder[i], get(input, SchemaOrder[i]))]
    IN  IF issues = {}
        THEN [success |-> TRUE,
              data |-> SelectSeq(shaped, LAMBDA e : has(input, e.key)),
              issues |-> {}]
        ELSE [success |-> FALSE, data |-> <<>>, issues |-> issues]

\* validateInput(input): the parsed input, or throws {zod: err}.
validateInput(input) ==
    LET r == schemaParse(input)
    IN  IF r.success
        THEN [called |-> TRUE, threw |-> FALSE, value |-> r.data, zod |-> {}]
        ELSE [called |-> TRUE, threw |-> TRUE, value |-> <<>>, zod |-> r.issues]

Absent == [tag |-> "absent"]

\* Lengths at and around a limit.
Around(n) == (n - Slack)..(n + Slack)

NameInputs == {Chars(Rep("a", n)) : n \in Around(3) \cup Around(100)}
CpfInputs == {Chars(Rep("1", n)) : n \in Around(11)}
PasswdInputs == {Chars(Rep("x", n)) : n \in Around(6) \cup Around(16)}

EmailInputs ==
    {Chars(<<"a", "@", "b", ".", "c", "o">>),
     Chars(<<"A", ".", "b", "+", "1", "@", "x", "-", "y", ".", "c", "o", ".", "i", "o">>),
     Chars(<<"a", "b", ".", "c", "o">>),
     Chars(<<".", "a", "@", "b", ".", "c", "o">>),
     Chars(<<"a", ".", ".", "b", "@", "b", ".", "c", "o">>),
     Chars(<<"a", ".", "@", "b", ".", "c", "o">>),
     Chars(<<"a", "'", "@", "b", ".", "c", "o">>),
     Chars(<<"@", "b", ".", "c", "o">>),
     Chars(<<"a", "@", "b">>),
     Chars(<<"a", "@", "b", ".", "c">>),
     Chars(<<"a", "@", "b", ".", "c", "0">>),
     Chars(<<"a", "@", "-", "b", ".", "c", "o">>),
     Chars(<<"a", "@", "b", ".", ".", "c", "o">>),
     Chars(<<"a", "@", "@", "b", ".", "c", "o">>),
     Chars(<<"a", " ", "b", "@", "c", ".", "d", "e">>),
     Chars(<<>>)} \cup
    {Chars(Rep("a", n - 5) \o <<"@", "b", ".", "c", "o">>) : n \in Around(100)}

Reverse(q) == [i \in 1..Len(q) |-> q[Len(q) + 1 - i]]

\* The mapping with the given fields, those marked Absent left out,
\* optionally a key the schema does not know, the keys in schema order or
\* in the reverse order.
InputOf(n, e, c, p, extra, rev) ==
    LET m == SelectSeq(<<Entry("role", IF extra THEN Chars(<<"x">>) ELSE Absent),
                         Entry("name", n), Entry("email", e), Entry("cpf", c),
                         Entry("passwd", p)>>,
                       LAMBDA en : en.value # Absent)
    IN  IF rev THEN Reverse(m) ELSE m

ValidateInputs ==
    {InputOf(n, e, c, p, extra, rev) :
        n \in NameInputs \cup {Absent, NotString},
        e \in EmailInputs \cup {Absent},
        c \in CpfInputs \cup {Absent, NotString},
        p \in PasswdInputs \cup {Absent},
        extra \in BOOLEAN,
        rev \in BOOLEAN}

NotCalled == [called |-> FALSE, threw |-> FALSE, value |-> <<>>, zod |-> {}]

Validate ==
    /\ ~vOut.called
    /\ vOut' = validateInput(vIn)
    /\ UNCHANGED vIn

NextVal ==
    \/ Validate /\ UNCHANGED <<authVars, updVars, findVars>>

InitVal ==
    /\ vIn \in ValidateInputs
    /\ vOut = NotCalled
    /\ nodeEnv = "production" /\ jar = NoCookies /\ issued = <<>>
    /\ loginRes = [prior |-> 0, cookies |-> <<>>]
    /\ req = [cookies |-> Undefined, build |-> "src"]
    /\ res = FreshRes /\ trace = NoTrace
    /\ users = <<>> /\ call = <<>> /\ saltCtr = 0 /\ hashLog = <<>>
    /\ started = 0
    /\ table = <<>> /\ fIn = [pc |-> "idle"] /\ fOut = [kind |-> "none"]

SpecVal == InitVal /\ [][NextVal]_vars

-----------------------------------------------------------------------------
(* Claims about validateInput *)

Present(key) == \E i \in 1..Len(vIn) : vIn[i].key = key

\* The length of a present field, or -1 when it is not a string.
LengthOf(key) ==
    IF get(vIn, key).tag = "str" THEN Len(get(vIn, key).s) ELSE -1

\* C5: validateInput succeeds exactly when every present field meets its
\* constraint: name 3 to 100 characters, email at most 100 characters and
\* well formed, cpf exactly 11 characters, passwd 6 to 16 characters; and
\* an input with none of the four fields succeeds.
C5_ValidatesExactlyTheConstraints ==
    vOut.called =>
        /\ ~vOut.threw <=>
            /\ Present("name") =>
                    (LengthOf("name") >= 3 /\ LengthOf("name") <= 100)
            /\ Present("email") =>
                    /\ LengthOf("email") >= 0
                    /\ LengthOf("email") <= 100
                    /\ emailRegex(get(vIn, "email").s)
            /\ Present("cpf") => LengthOf("cpf") = 11
            /\ Present("passwd") =>
                    (LengthOf("passwd") >= 6 /\ LengthOf("passwd") <= 16)
        /\ (\A k \in {"name", "email", "cpf", "passwd"} : ~Present(k))
                => ~vOut.threw

C5_Witness ==
    /\ vOut.called
    /\ vOut.threw
    /\ Present("cpf")
    /\ LengthOf("cpf") = 12
    /\ vOut.zod = {[path |-> "cpf", code |-> "too_big"]}

-----------------------------------------------------------------------------
(* findUserByField *)

\* User.findOne({where, attributes}) on the rows of the store: the first row
\* whose columns equal the where values, with the excluded attributes left
\* out when attributes.exclude is given; null when no row matches.
findOne(rows, query) ==
    LET w == query.where
        matches(row) == \A i \in 1..Len(w) : row[w[i].key] = w[i].value
        hits == {i \in 1..Len(rows) : matches(rows[i])}
        excluded == IF query.attributes = Null THEN {}
                    ELSE {query.attributes.exclude[i] :
                            i \in 1..Len(query.attributes.exclude)}
    IN  IF hits = {}
        THEN [kind |-> "null", dataValues |-> <<>>]
        ELSE LET row == rows[CHOOSE i \in hits : \A j \in hits : i <= j]
             IN  [kind |-> "model",
                  dataValues |-> [a \in (DOMAIN row) \ excluded |-> row[a]]]

\* A lookup that never excludes anything.
findUserByFieldUnrestricted(field, restrict) ==
    LET kv == objectKey(field)
    IN  [where |-> <<Entry(kv.key, kv.value)>>, attributes |-> Null]

\* findUserByField(field, restrict) up to its await: the query it hands to
\* User.findOne.  What findOne answers is returned as it is.
findUserByField(field, restrict) ==
    LET kv == objectKey(field)
        attributes == IF restrict
                      THEN [exclude |-> <<"cpf", "passwd">>]
                      ELSE Null
    IN  [where |-> <<Entry(kv.key, kv.value)>>, attributes |-> attributes]

StoredRows ==
    {[name |-> Str("ana"), email |-> Str("x@x.com"),
      cpf |-> Str("12345678901"), passwd |-> bcryptHash("secret1", 1)],
     [name |-> Str("bob"), email |-> Str("bob@y.org"),
      cpf |-> Str("10987654321"), passwd |-> bcryptHash("hunter22", 2)],
     [name |-> Str("ana"), email |-> Str("ana2@x.com"),
      cpf |-> Str("11111111111"), passwd |-> bcryptHash("secret1", 3)]}

Tables == UNION {[1..n -> StoredRows] : n \in 0..MaxRows}

LookupFields ==
    {<<Entry("email", Str("x@x.com"))>>,
     <<Entry("email", Str("nobody@x.com"))>>,
     <<Entry("cpf", Str("10987654321"))>>,
     <<Entry("cpf", Str("00000000000"))>>,
     <<Entry("name", Str("ana"))>>,
     <<Entry("passwd", bcryptHash("hunter22", 2))>>,
     <<Entry("name", Str("bob")), Entry("email", Str("x@x.com"))>>}

NoQuery == [where |-> <<>>, attributes |-> Null]

NoFind == [pc |-> "idle", field |-> <<>>, restrict |-> FALSE, query |-> NoQuery]

NoResult == [kind |-> "none", dataValues |-> <<>>]

\* findUserByField is called: the query is built and handed to User.findOne,
\* and the call waits for the answer.
FindStart ==
    \E field \in LookupFields, restrict \in BOOLEAN :
        /\ fIn.pc # "pending"
        /\ fIn' = [pc |-> "pending", field |-> field, restrict |-> restrict,
                   query |-> findUserByField(field, restrict)]
        /\ fOut' = NoResult
        /\ UNCHANGED table

\* `await User.findOne(...)` resolves on the store as it is by then, and the
\* answer is returned.
FindDone ==
    /\ fIn.pc = "pending"
    /\ fIn' = [fIn EXCEPT !.pc = "done"]
    /\ fOut' = findOne(table, fIn.query)
    /\ UNCHANGED table

\* Other requests write the store, also while a lookup is in flight.
StoreInsert ==
    \E row \in StoredRows :
        /\ Len(table) < MaxRows
        /\ table' = Append(table, row)
        /\ UNCHANGED <<fIn, fOut>>

StoreDelete ==
    \E i \in 1..Len(table) :
        /\ table' = SubSeq(table, 1, i - 1) \o SubSeq(table, i + 1, Len(table))
        /\ UNCHANGED <<fIn, fOut>>

NextFind ==
    \/ FindStart /\ UNCHANGED <<authVars, updVars, valVars>>
    \/ FindDone /\ UNCHANGED <<authVars, updVars, valVars>>
    \/ StoreInsert /\ UNCHANGED <<authVars, updVars, valVars>>
    \/ StoreDelete /\ UNCHANGED <<authVars, updVars, valVars>>

InitFind ==
    /\ table \in Tables
    /\ fIn = NoFind
    /\ fOut = NoResult
    /\ nodeEnv = "production" /\ jar = NoCookies /\ issued = <<>>
    /\ loginRes = [prior |-> 0, cookies |-> <<>>]
    /\ req = [cookies |-> Undefined, build |-> "src"]
    /\ res = FreshRes /\ trace = NoTrace
    /\ users = <<>> /\ call = <<>> /\ saltCtr = 0 /\ hashLog = <<>>
    /\ started = 0
    /\ vIn = <<>> /\ vOut = NotCalled

SpecFind == InitFind /\ [][NextFind]_vars

-----------------------------------------------------------------------------
(* Claims about findUserByField *)

\* C6: a restricted lookup, by whatever key, returns a result without the
\* cpf and passwd attributes; and a lookup that no user of the store matches
\* when the store answers returns null.
C6_RestrictedHidesSensitive ==
    [][ (fIn.pc = "pending" /\ fIn'.pc = "done") =>
            /\ (fIn.restrict /\ fOut'.kind = "model") =>
                    /\ "cpf" \notin DOMAIN fOut'.dataValues
                    /\ "passwd" \notin DOMAIN fOut'.dataValues
            /\ (\A i \in 1..Len(table) :
                    table[i][fIn.field[1].key] # fIn.field[1].value)
                    => fOut'.kind = "null"
            /\ fOut'.kind \in {"model", "null"}
      ]_vars

\* A restricted lookup by cpf has returned a user, without cpf and passwd.
C6_Witness ==
    /\ fIn.pc = "done"
    /\ fIn.restrict
    /\ fIn.field[1].key = "cpf"
    /\ fOut.kind = "model"
    /\ DOMAIN fOut.dataValues = {"name", "email"}
    /\ fOut.dataValues.name = Str("bob")

====
